---- MODULE Spec2Model ----
(***************************************************************************)
(* Model of the orchestration core of hevelius-runner:                     *)
(*   - FITSHandler (src/src/file_monitor.py): creation events, the         *)
(*     deduplication set and its lock, the stability wait, the callback;   *)
(*   - NINAController (src/src/nina_controller.py): start_sequence, stop,  *)
(*     is_running, the monitor thread and _cleanup;                        *)
(*   - ScriptExecutor (src/src/script_executor.py): execute_script and     *)
(*     the per-type worker threads.                                        *)
(* Every Python statement that reads or writes shared state is one step,   *)
(* so that the interleavings of the threads are the ones the interpreter   *)
(* can produce.                                                            *)
(***************************************************************************)
EXTENDS Integers, Sequences, FiniteSets, TLC

None == "None"
NoThread == 0       \* a lock nobody holds, a thread slot that is empty

(***************************************************************************)
(* Bounds of the model.                                                    *)
(***************************************************************************)
NumHandlers == 2     \* threads that may deliver creation events
MaxEvents == 3       \* creation events delivered in one run
MaxSize == 2         \* largest file size the stat call observes
MaxLaunch == 2       \* processes start_sequence launches in one run
NumChildren == 1     \* descendants a launched process can have
NumCallers == 2      \* threads that call execute_script
MaxCalls == 3        \* calls of execute_script in one run
MaxTicks == 3        \* evaluations of is_night_time() in one run
MaxDates == 2        \* calendar dates datetime.now().date() takes in one run
MaxTasks == 2        \* tasks (and length) of a night plan
MaxExisting == 3     \* entries the glob of process_existing_files yields
MaxArrivals == 3     \* FITS files passed to handle_new_fits_file in one run

(***************************************************************************)
(* Program constants.                                                      *)
(***************************************************************************)
WaitTimeout == 30    \* _wait_for_file_ready(timeout=30), polled every 1 s

VARIABLES
  \* ---- FITSHandler ----
  processing_lock,   \* NoThread or the handler thread holding _processing_lock
  processed_files,   \* the set _processed_files
  fh_pc,             \* position of each handler thread
  fh_path,           \* file_path argument of each handler thread
  fh_last,           \* last_size of _wait_for_file_ready
  fh_elapsed,        \* seconds slept in _wait_for_file_ready
  fh_seen,           \* the last two results of stat in this wait (a size, or
                     \* Gone), oldest first
  calls,             \* per path: how often self.callback(path) was invoked
  delivered,         \* per path: creation events passed to _handle_new_file
  dropped,           \* creation events on_created filtered out
  \* ---- FileMonitor.process_existing_files ----
  pe_pc,             \* position of the thread in process_existing_files
  pe_callback,       \* self._callback is set (start() was called)
  pe_todo,           \* the entries the glob has still to yield, in order
  pe_scan,           \* all entries of this scan
  pe_dirs,           \* the entries of this scan that are not files
  pe_called,         \* the entries self._callback was invoked for
  \* ---- NINAController ----
  process,           \* self.process: NoProc or the launched process
  stop_event,        \* self._stop_event
  monitor_thread,    \* self._monitor_thread: NoThread or a monitor thread
  status_callback,   \* self._status_callback
  exe_exists,        \* self.nina_path.exists(), during this start_sequence
  seq_exists,        \* Path(sequence_path).exists(), during this start_sequence
  launched,          \* processes launched so far (the last one's id)
  alive,             \* per launched process: it has not exited
  n_pc,              \* position of the thread calling start_sequence / stop
  n_pid,             \* the process that thread read from self.process
  n_kids,            \* descendants enumerated by psutil (a list, here in
                     \* ascending order) and not yet signalled
  n_result,          \* how the last call of that thread ended
  mon_pc,            \* position of each monitor thread (_monitor_process)
  term_sent,         \* this stop(): who was sent terminate (Root or a child)
  kill_sent,         \* this stop(): who was sent kill
  waited,            \* this stop(): the last wait for the process, and its end
  mon_cb,            \* per monitor thread, its last iteration: what became
                     \* of the stdout line (none read; the status callback
                     \* returned or raised; missed: not forwarded)
  mon_raised,        \* per monitor thread: its status callback has raised
  \* ---- ScriptExecutor ----
  script_queues,     \* self.script_queues: per type NoQueue or a Queue object
  running_threads,   \* self.running_threads: per type NoThread or a worker
  queues,            \* per Queue object: the invocations it holds, in order
  n_queues,          \* Queue objects created so far
  n_workers,         \* worker threads created so far
  n_calls,           \* calls of execute_script so far (the last one's id)
  script_ok,         \* per caller: the script of this call is configured
                     \* and exists
  c_pc,              \* position of each caller inside execute_script
  c_type,            \* script_type of the call
  c_call,            \* the call (its args) of each caller
  c_thread,          \* the local variable thread of the call
  w_pc,              \* position of each worker thread (_script_worker)
  w_type,            \* script_type of each worker
  w_queue,           \* the local variable queue of each worker
  w_call,            \* the invocation each worker is executing
  inv_type,          \* per call: its script_type
  inv_state,         \* per call: calling, rejected, queued, running, done
  inv_after,         \* per call: the calls of its type that had returned True
                     \* when it was made
  sa_pc,             \* position of the thread that calls stop_all
  sa_todo,           \* the keys the iteration has not yet come to
  executions,        \* per script_type: the times its worker has run the
                     \* script
  \* ---- ObservatoryAutomation ----
  r_pc,              \* position of the main thread inside run() and cleanup()
  r_ticks,           \* evaluations of is_night_time() so far
  r_date,            \* run(): current_date of the iteration under way
  current_sequence_path,  \* self.current_sequence_path
  r_run_path,        \* the sequence file the supervised process was started
                     \* with (None when no process is supervised)
  r_night,           \* what the last evaluation of is_night_time() returned
  r_prev_night,      \* what the evaluation before it returned
  r_running,         \* nina_controller.is_running(): a process is supervised
  r_watch,           \* the observer thread of the file monitor was started
  r_events,          \* the collaborator calls made so far
  r_exit,            \* why run() left its try block: none, interrupt, error
  r_raised,          \* an error has left cleanup()
  r_failed,          \* the last process_night_plan ended in its except clause
  r_start_failed,    \* start_sequence has returned False in this night
  r_tasks,           \* process_night_plan: tasks (the task ids, in order)
  r_status,          \* what check_task_status returned for each task id
  r_pending,         \* process_night_plan: pending_tasks
  h_pc,              \* position of the watcher thread in handle_new_fits_file
  h_path,            \* its file_path argument
  h_arrivals,        \* calls of handle_new_fits_file so far
  h_handled,         \* the paths for which handle_new_fits_file has returned
  h_reported,        \* <<task id, path>> of the update_task_status calls
                     \* that returned
  h_triggered        \* <<task id, path>> of the post_task triggers made

fileVars == <<processing_lock, processed_files, fh_pc, fh_path, fh_last,
              fh_elapsed, fh_seen, calls, delivered, dropped>>

ninaVars == <<process, stop_event, monitor_thread, status_callback,
              exe_exists, seq_exists, launched, alive,
              n_pc, n_pid, n_kids, n_result, mon_pc, term_sent, kill_sent,
              waited>>

scriptVars == <<script_queues, running_threads, queues, n_queues, n_workers,
                n_calls, script_ok, c_pc, c_type, c_call, c_thread, w_pc,
                w_type, w_queue, w_call, inv_type, inv_state, inv_after,
                sa_pc, sa_todo, executions>>

runnerVars == <<r_pc, r_ticks, r_date, current_sequence_path, r_run_path,
              r_night, r_prev_night, r_running, r_watch,
                r_events, r_exit, r_raised, r_failed, r_start_failed,
                r_tasks, r_status, r_pending,
                h_pc, h_path, h_arrivals, h_handled, h_reported, h_triggered>>

scanVars == <<pe_pc, pe_callback, pe_todo, pe_scan, pe_dirs, pe_called>>

outputVars == <<mon_cb, mon_raised>>

vars == <<fileVars, ninaVars, scriptVars, runnerVars, scanVars, outputVars>>

(***************************************************************************)
(* FITSHandler                                                             *)
(***************************************************************************)
HandlerThreads == 1..NumHandlers
Paths == {"a.fits", "B.FITS", "notes.txt"}
Gone == -2           \* stat raised FileNotFoundError
Sizes == 0..MaxSize

\* Path(p).suffix.lower()
SuffixLower(p) == IF p \in {"a.fits", "B.FITS"} THEN ".fits" ELSE ".txt"
file_extension == ".fits"
FitsPaths == {p \in Paths : SuffixLower(p) = file_extension}

\* the sequences over S of length at most n
RECURSIVE SeqsUpTo(_, _)
SeqsUpTo(S, n) ==
  IF n = 0 THEN {<<>>}
  ELSE LET shorter == SeqsUpTo(S, n - 1)
       IN shorter \cup {Append(q, x) : q \in shorter, x \in S}

RECURSIVE SumOver(_, _)
SumOver(f, S) == IF S = {} THEN 0
                 ELSE LET x == CHOOSE y \in S : TRUE
                      IN f[x] + SumOver(f, S \ {x})

FileInit ==
  /\ processing_lock = NoThread
  /\ processed_files = {}
  /\ fh_pc = [t \in HandlerThreads |-> "idle"]
  /\ fh_path = [t \in HandlerThreads |-> None]
  /\ fh_last = [t \in HandlerThreads |-> -1]
  /\ fh_elapsed = [t \in HandlerThreads |-> 0]
  /\ fh_seen = [t \in HandlerThreads |-> <<>>]
  /\ calls = [p \in Paths |-> 0]
  /\ delivered = [p \in Paths |-> 0]
  /\ dropped = 0

\* on_created: directories and other suffixes are dropped, the rest goes to
\* _handle_new_file, whose first statement is the acquisition of the lock.
on_created(t, p, is_directory) ==
  /\ fh_pc[t] = "idle"
  /\ SumOver(delivered, Paths) + dropped < MaxEvents
  /\ IF ~is_directory /\ SuffixLower(p) = file_extension
       THEN /\ fh_pc' = [fh_pc EXCEPT ![t] = "acquire"]
            /\ fh_path' = [fh_path EXCEPT ![t] = p]
            /\ delivered' = [delivered EXCEPT ![p] = @ + 1]
            /\ UNCHANGED dropped
       ELSE /\ dropped' = dropped + 1
            /\ UNCHANGED <<fh_pc, fh_path, delivered>>
  /\ UNCHANGED <<processing_lock, processed_files, fh_last, fh_elapsed,
                 fh_seen, calls>>
  /\ UNCHANGED <<ninaVars, scriptVars, runnerVars, scanVars, outputVars>>

\* with self._processing_lock:
AcquireLock(t) ==
  /\ fh_pc[t] = "acquire"
  /\ processing_lock = NoThread
  /\ processing_lock' = t
  /\ fh_pc' = [fh_pc EXCEPT ![t] = "check"]
  /\ UNCHANGED <<processed_files, fh_path, fh_last, fh_elapsed, fh_seen, calls,
                 delivered, dropped>>
  /\ UNCHANGED <<ninaVars, scriptVars, runnerVars, scanVars, outputVars>>

\* if file_path in self._processed_files: return   (leaving the with block)
\* otherwise _wait_for_file_ready starts: last_size = -1, start_time = now
CheckProcessed(t) ==
  /\ fh_pc[t] = "check"
  /\ IF fh_path[t] \in processed_files
       THEN /\ fh_pc' = [fh_pc EXCEPT ![t] = "idle"]
            /\ fh_path' = [fh_path EXCEPT ![t] = None]
            /\ processing_lock' = NoThread
       ELSE /\ fh_pc' = [fh_pc EXCEPT ![t] = "wait"]
            /\ UNCHANGED <<fh_path, processing_lock>>
  /\ fh_last' = [fh_last EXCEPT ![t] = -1]
  /\ fh_elapsed' = [fh_elapsed EXCEPT ![t] = 0]
  /\ fh_seen' = [fh_seen EXCEPT ![t] = <<>>]
  /\ UNCHANGED <<processed_files, calls, delivered, dropped>>
  /\ UNCHANGED <<ninaVars, scriptVars, runnerVars, scanVars, outputVars>>

LastTwo(q) == IF Len(q) <= 2 THEN q ELSE Tail(q)

\* lines 69-77, one iteration of the loop of _wait_for_file_ready
WaitBody(t, obs) ==
  IF obs = Gone
    THEN \* FileNotFoundError: warning, return
         /\ fh_pc' = [fh_pc EXCEPT ![t] = "ready"]
         /\ UNCHANGED <<fh_last, fh_elapsed>>
    ELSE IF obs = fh_last[t] /\ obs > 0
    THEN /\ fh_pc' = [fh_pc EXCEPT ![t] = "ready"]
         /\ UNCHANGED <<fh_last, fh_elapsed>>
    ELSE /\ fh_last' = [fh_last EXCEPT ![t] = obs]
         /\ fh_elapsed' = [fh_elapsed EXCEPT ![t] = @ + 1]
         /\ UNCHANGED fh_pc

\* One evaluation of the while condition of _wait_for_file_ready and, when
\* it holds, one iteration: stat, compare, remember, sleep(1).  obs is what
\* stat returns: a size, or Gone when the file has disappeared.
WaitIteration(t, obs) ==
  /\ fh_pc[t] = "wait"
  /\ IF fh_elapsed[t] >= WaitTimeout
       THEN \* timeout: warning, return
            /\ fh_pc' = [fh_pc EXCEPT ![t] = "ready"]
            /\ UNCHANGED <<fh_last, fh_elapsed, fh_seen>>
       ELSE /\ fh_seen' = [fh_seen EXCEPT ![t] = LastTwo(Append(@, obs))]
            /\ WaitBody(t, obs)
  /\ UNCHANGED <<processing_lock, processed_files, fh_path, calls, delivered,
                 dropped>>
  /\ UNCHANGED <<ninaVars, scriptVars, runnerVars, scanVars, outputVars>>

\* self.callback(file_path) is entered
CallbackEnter(t) ==
  /\ fh_pc[t] = "ready"
  /\ fh_pc' = [fh_pc EXCEPT ![t] = "callback"]
  /\ calls' = [calls EXCEPT ![fh_path[t]] = @ + 1]
  /\ UNCHANGED <<processing_lock, processed_files, fh_path, fh_last,
                 fh_elapsed, fh_seen, delivered, dropped>>
  /\ UNCHANGED <<ninaVars, scriptVars, runnerVars, scanVars, outputVars>>

\* What the end of the callback does to the deduplication set: the add of
\* line 53 is reached only when the callback returned.
AfterCallback(t, raised) ==
  IF raised THEN processed_files ELSE processed_files \cup {fh_path[t]}

\* the callback returns or raises; the except clause logs; the lock is released
CallbackExit(t, raised) ==
  /\ fh_pc[t] = "callback"
  /\ processed_files' = AfterCallback(t, raised)
  /\ processing_lock' = NoThread
  /\ fh_pc' = [fh_pc EXCEPT ![t] = "idle"]
  /\ fh_path' = [fh_path EXCEPT ![t] = None]
  /\ fh_last' = [fh_last EXCEPT ![t] = -1]
  /\ fh_elapsed' = [fh_elapsed EXCEPT ![t] = 0]
  /\ fh_seen' = [fh_seen EXCEPT ![t] = <<>>]
  /\ UNCHANGED <<calls, delivered, dropped>>
  /\ UNCHANGED <<ninaVars, scriptVars, runnerVars, scanVars, outputVars>>

(* ----------------- FileMonitor.process_existing_files ------------------ *)
Entries == 1..MaxExisting

\* what self.monitor_dir.glob("*.fits") can yield: entries of the directory,
\* each once, in the order of the directory listing
GlobResults == {q \in SeqsUpTo(Entries, MaxExisting) :
                  \A i, j \in 1..Len(q) : q[i] = q[j] => i = j}

ScanInit ==
  /\ pe_pc = "idle"
  /\ pe_callback = FALSE
  /\ pe_todo = <<>>
  /\ pe_scan = {}
  /\ pe_dirs = {}
  /\ pe_called = {}

\* line 133: for file_path in self.monitor_dir.glob("*.fits"):
Scan_Begin(q, dirs, cb) ==
  /\ pe_pc = "idle"
  /\ dirs \subseteq {q[i] : i \in 1..Len(q)}
  /\ pe_pc' = "loop"
  /\ pe_callback' = cb
  /\ pe_todo' = q
  /\ pe_scan' = {q[i] : i \in 1..Len(q)}
  /\ pe_dirs' = dirs
  /\ pe_called' = {}
  /\ UNCHANGED <<fileVars, ninaVars, scriptVars, runnerVars, outputVars>>

\* lines 133-138, one iteration: if self._callback and file_path.is_file():
\* self._callback(str(file_path)); an error of the callback leaves the loop
\* for the except clause of line 137, which ends the scan
Scan_Next(raised) ==
  /\ pe_pc = "loop"
  /\ IF pe_todo = <<>>
       THEN pe_pc' = "done" /\ UNCHANGED <<pe_todo, pe_called>>
       ELSE IF pe_callback /\ Head(pe_todo) \notin pe_dirs
       THEN /\ pe_called' = pe_called \cup {Head(pe_todo)}
            /\ pe_todo' = Tail(pe_todo)
            /\ pe_pc' = IF raised THEN "done" ELSE "loop"
       ELSE /\ pe_todo' = Tail(pe_todo)
            /\ UNCHANGED <<pe_pc, pe_called>>
  /\ UNCHANGED <<pe_callback, pe_scan, pe_dirs>>
  /\ UNCHANGED <<fileVars, ninaVars, scriptVars, runnerVars, outputVars>>

\* process_existing_files has returned
Scan_Return ==
  /\ pe_pc = "done"
  /\ pe_pc' = "idle"
  /\ UNCHANGED <<pe_callback, pe_todo, pe_scan, pe_dirs, pe_called>>
  /\ UNCHANGED <<fileVars, ninaVars, scriptVars, runnerVars, outputVars>>

ScanNext ==
  \/ \E q \in GlobResults, dirs \in SUBSET Entries, cb \in BOOLEAN :
        Scan_Begin(q, dirs, cb)
  \/ \E raised \in BOOLEAN : Scan_Next(raised)
  \/ Scan_Return

FileNext ==
  \/ \E t \in HandlerThreads, p \in Paths, d \in BOOLEAN : on_created(t, p, d)
  \/ \E t \in HandlerThreads : AcquireLock(t)
  \/ \E t \in HandlerThreads : CheckProcessed(t)
  \/ \E t \in HandlerThreads, obs \in Sizes \cup {Gone} : WaitIteration(t, obs)
  \/ \E t \in HandlerThreads : CallbackEnter(t)
  \/ \E t \in HandlerThreads, raised \in BOOLEAN : CallbackExit(t, raised)


(***************************************************************************)
(* NINAController                                                          *)
(***************************************************************************)
NoProc == 0          \* self.process is None
Root == 0            \* the launched process itself, among its process tree
Procs == 1..MaxLaunch
Monitors == 1..MaxLaunch      \* the k-th launch starts monitor thread k
Children == 1..NumChildren

NinaInit ==
  /\ process = NoProc
  /\ stop_event = FALSE
  /\ monitor_thread = NoThread
  /\ status_callback = None
  /\ exe_exists = TRUE
  /\ seq_exists = TRUE
  /\ launched = 0
  /\ alive = [p \in Procs |-> FALSE]
  /\ n_pc = "idle"
  /\ n_pid = NoProc
  /\ n_kids = {}
  /\ n_result = "none"
  /\ mon_pc = [k \in Monitors |-> "unborn"]
  /\ term_sent = {}
  /\ kill_sent = {}
  /\ waited = "no"
  /\ mon_cb = [k \in Monitors |-> "none"]
  /\ mon_raised = [k \in Monitors |-> FALSE]

\* threading.Thread.is_alive()
ThreadAlive(k) == mon_pc[k] \notin {"unborn", "done"}

\* The call of the main thread ends: result is what the caller sees.
Return(result) ==
  /\ n_pc' = "idle"
  /\ n_result' = result
  /\ n_pid' = NoProc
  /\ n_kids' = {}

Goto(pc) ==
  /\ n_pc' = pc
  /\ UNCHANGED n_result

ninaShared == <<process, stop_event, monitor_thread, status_callback,
                launched, alive, mon_pc>>
ninaEnv == <<exe_exists, seq_exists>>
stopGhost == <<term_sent, kill_sent, waited>>

\* What the file system showed start_sequence is kept for that call only.
ForgetFiles ==
  /\ exe_exists' = TRUE
  /\ seq_exists' = TRUE

\* The record of the signals of one stop() is kept for that call only.
ForgetSignals ==
  /\ term_sent' = {}
  /\ kill_sent' = {}
  /\ waited' = "no"

(* ------------------------- the environment ---------------------------- *)
\* A launched process exits: on its own, or because it obeys a terminate.
ProcExit(p) ==
  /\ alive[p]
  /\ alive' = [alive EXCEPT ![p] = FALSE]
  /\ UNCHANGED <<process, stop_event, monitor_thread, status_callback,
                 launched, mon_pc, ninaEnv, n_pc, n_pid,
                 n_kids, n_result, stopGhost>>
  /\ UNCHANGED <<fileVars, scriptVars, runnerVars, scanVars, outputVars>>

(* --------------------------- start_sequence --------------------------- *)
\* line 54, is_running() line 128: if self.process:
Start_IsRunning1(exe, seq) ==
  /\ n_pc = "idle"
  /\ exe_exists' = exe
  /\ seq_exists' = seq
  /\ IF process = NoProc THEN n_pc' = "ss_exe" ELSE n_pc' = "ss_running2"
  /\ n_result' = "none"
  /\ UNCHANGED <<ninaShared, n_pid, n_kids, stopGhost>>
  /\ UNCHANGED <<fileVars, scriptVars, runnerVars, scanVars, outputVars>>

\* is_running() line 129: return self.process.poll() is None
\* (self.process is read a second time: AttributeError when it is None now)
Start_IsRunning2 ==
  /\ n_pc = "ss_running2"
  /\ IF process = NoProc THEN Return("start_raised") /\ ForgetFiles
     ELSE IF alive[process] THEN Return("False") /\ ForgetFiles
     ELSE Goto("ss_exe") /\ UNCHANGED <<n_pid, n_kids, ninaEnv>>
  /\ UNCHANGED <<ninaShared, stopGhost>>
  /\ UNCHANGED <<fileVars, scriptVars, runnerVars, scanVars, outputVars>>

\* line 58: if not self.nina_path.exists(): return False
Start_CheckExe ==
  /\ n_pc = "ss_exe"
  /\ IF ~exe_exists THEN Return("False") /\ ForgetFiles
     ELSE /\ Goto("ss_seq")
          /\ UNCHANGED <<n_pid, n_kids, ninaEnv>>
  /\ UNCHANGED <<ninaShared, stopGhost>>
  /\ UNCHANGED <<fileVars, scriptVars, runnerVars, scanVars, outputVars>>

\* line 64: if not sequence_path.exists(): return False
Start_CheckSeq ==
  /\ n_pc = "ss_seq"
  /\ IF ~seq_exists THEN Return("False") /\ ForgetFiles
     ELSE /\ Goto("ss_set")
          /\ UNCHANGED <<n_pid, n_kids, ninaEnv>>
  /\ UNCHANGED <<ninaShared, stopGhost>>
  /\ UNCHANGED <<fileVars, scriptVars, runnerVars, scanVars, outputVars>>

\* lines 68-69: self._status_callback = status_callback; _stop_event.clear()
Start_SetCallback ==
  /\ n_pc = "ss_set"
  /\ status_callback' = "handle_nina_status"
  /\ stop_event' = FALSE
  /\ Goto("ss_popen")
  /\ UNCHANGED <<process, monitor_thread, launched, alive,
                 mon_pc, ninaEnv, n_pid, n_kids, stopGhost>>
  /\ UNCHANGED <<fileVars, scriptVars, runnerVars, scanVars, outputVars>>

\* lines 75-81: self.process = subprocess.Popen(...); Popen may raise, and
\* then lines 93-95 return False.
Start_Popen(ok) ==
  /\ n_pc = "ss_popen"
  /\ IF ok /\ launched < MaxLaunch
       THEN /\ launched' = launched + 1
            /\ process' = launched + 1
            /\ alive' = [alive EXCEPT ![launched + 1] = TRUE]
            /\ Goto("ss_thread")
            /\ UNCHANGED <<n_pid, n_kids>>
       ELSE /\ Return("False")
            /\ UNCHANGED <<launched, process, alive>>
  /\ UNCHANGED <<stop_event, monitor_thread, status_callback, mon_pc,
                 ninaEnv, stopGhost>>
  /\ UNCHANGED <<fileVars, scriptVars, runnerVars, scanVars, outputVars>>

\* lines 84-91: the monitor thread is created and started; return True
Start_Thread ==
  /\ n_pc = "ss_thread"
  /\ monitor_thread' = launched
  /\ mon_pc' = [mon_pc EXCEPT ![launched] = "start"]
  /\ Return("True")
  /\ UNCHANGED <<process, stop_event, status_callback, launched, alive,
                 ninaEnv, stopGhost>>
  /\ UNCHANGED <<fileVars, scriptVars, runnerVars, scanVars, outputVars>>

(* -------------------------------- stop -------------------------------- *)
\* line 99: self._stop_event.set()
Stop_SetEvent ==
  /\ n_pc = "idle"
  /\ stop_event' = TRUE
  /\ n_pc' = "st_if"
  /\ n_result' = "none"
  /\ ForgetSignals
  /\ UNCHANGED <<process, monitor_thread, status_callback, launched, alive,
                 mon_pc, ninaEnv, n_pid, n_kids>>
  /\ UNCHANGED <<fileVars, scriptVars, runnerVars, scanVars, outputVars>>

\* line 101: if self.process:
Stop_IfProcess ==
  /\ n_pc = "st_if"
  /\ IF process = NoProc THEN Goto("st_join") ELSE Goto("st_pid")
  /\ UNCHANGED <<ninaShared, ninaEnv, n_pid, n_kids, stopGhost>>
  /\ UNCHANGED <<fileVars, scriptVars, runnerVars, scanVars, outputVars>>

\* line 104: the argument self.process.pid is evaluated; AttributeError when
\* self.process is None by now, caught at line 112
Stop_ReadPid ==
  /\ n_pc = "st_pid"
  /\ IF process = NoProc
       THEN Goto("st_finally") /\ UNCHANGED n_pid
       ELSE Goto("st_term_enum") /\ n_pid' = process
  /\ UNCHANGED <<ninaShared, ninaEnv, n_kids, stopGhost>>
  /\ UNCHANGED <<fileVars, scriptVars, runnerVars, scanVars, outputVars>>

\* lines 183-184: parent = psutil.Process(pid); children = parent.children();
\* NoSuchProcess (line 196) when the process has exited.  kids are the
\* descendants the process has at this moment.
Terminate_Enumerate(kids) ==
  /\ n_pc = "st_term_enum"
  /\ IF alive[n_pid]
       THEN Goto("st_term_kids") /\ n_kids' = kids
       ELSE Goto("st_wait") /\ UNCHANGED n_kids
  /\ UNCHANGED <<ninaShared, ninaEnv, n_pid, stopGhost>>
  /\ UNCHANGED <<fileVars, scriptVars, runnerVars, scanVars, outputVars>>

\* lines 187-188: for child in children: child.terminate(); a child that has
\* exited since the enumeration (gone) raises NoSuchProcess, which ends
\* _terminate_process_tree at line 196: the children left in n_kids and the
\* parent are not signalled.
Terminate_Child(c, gone) ==
  /\ n_pc = "st_term_kids"
  /\ c \in n_kids
  /\ \A d \in n_kids : c <= d
  /\ n_kids' = n_kids \ {c}
  /\ IF gone
       THEN Goto("st_wait") /\ UNCHANGED term_sent
       ELSE Goto("st_term_kids") /\ term_sent' = term_sent \cup {c}
  /\ UNCHANGED <<ninaShared, ninaEnv, n_pid, kill_sent, waited>>
  /\ UNCHANGED <<fileVars, scriptVars, runnerVars, scanVars, outputVars>>

\* lines 191-194: parent.terminate(); psutil.wait_procs(..., timeout=5);
\* NoSuchProcess when the parent has exited
Terminate_Parent ==
  /\ n_pc = "st_term_kids"
  /\ n_kids = {}
  /\ IF alive[n_pid]
       THEN /\ term_sent' = term_sent \cup {Root}
            /\ waited' = "wait_procs"
       ELSE UNCHANGED <<term_sent, waited>>
  /\ Goto("st_wait")
  /\ UNCHANGED <<ninaShared, ninaEnv, n_pid, n_kids, kill_sent>>
  /\ UNCHANGED <<fileVars, scriptVars, runnerVars, scanVars, outputVars>>

\* line 107: self.process.wait(timeout=30) begins; AttributeError when
\* self.process is None by now, caught at line 112
Stop_WaitBegin ==
  /\ n_pc = "st_wait"
  /\ IF process = NoProc
       THEN Goto("st_finally") /\ UNCHANGED <<n_pid, waited>>
       ELSE Goto("st_waiting") /\ n_pid' = process /\ waited' = "wait"
  /\ UNCHANGED <<ninaShared, ninaEnv, n_kids, term_sent, kill_sent>>
  /\ UNCHANGED <<fileVars, scriptVars, runnerVars, scanVars, outputVars>>

\* line 107 ends: the process has exited, or the 30 s are over and
\* TimeoutExpired goes to line 109
Stop_WaitEnd ==
  /\ n_pc = "st_waiting"
  /\ IF alive[n_pid]
       THEN Goto("st_kill_pid") /\ waited' = "timeout"
       ELSE Goto("st_finally") /\ waited' = "exited"
  /\ UNCHANGED <<ninaShared, ninaEnv, n_pid, n_kids, term_sent, kill_sent>>
  /\ UNCHANGED <<fileVars, scriptVars, runnerVars, scanVars, outputVars>>

\* line 111: the argument self.process.pid is evaluated inside the except
\* clause; AttributeError when self.process is None by now: no other except
\* clause applies, the finally clause clears the handle and the error leaves
\* stop()
Stop_KillReadPid ==
  /\ n_pc = "st_kill_pid"
  /\ IF process = NoProc
       THEN Return("stop_raised") /\ ForgetSignals
       ELSE /\ Goto("st_kill_enum")
            /\ n_pid' = process
            /\ UNCHANGED <<n_kids, stopGhost>>
  /\ UNCHANGED <<ninaShared, ninaEnv>>
  /\ UNCHANGED <<fileVars, scriptVars, runnerVars, scanVars, outputVars>>

\* lines 209-210: parent = psutil.Process(pid); children = parent.children()
Kill_Enumerate(kids) ==
  /\ n_pc = "st_kill_enum"
  /\ IF alive[n_pid]
       THEN Goto("st_kill_kids") /\ n_kids' = kids
       ELSE Goto("st_finally") /\ UNCHANGED n_kids
  /\ UNCHANGED <<ninaShared, ninaEnv, n_pid, stopGhost>>
  /\ UNCHANGED <<fileVars, scriptVars, runnerVars, scanVars, outputVars>>

\* lines 213-214: for child in children: child.kill(); NoSuchProcess
\* (line 219) for a child that has exited since the enumeration
Kill_Child(c, gone) ==
  /\ n_pc = "st_kill_kids"
  /\ c \in n_kids
  /\ \A d \in n_kids : c <= d
  /\ n_kids' = n_kids \ {c}
  /\ IF gone
       THEN Goto("st_finally") /\ UNCHANGED kill_sent
       ELSE Goto("st_kill_kids") /\ kill_sent' = kill_sent \cup {c}
  /\ UNCHANGED <<ninaShared, ninaEnv, n_pid, term_sent, waited>>
  /\ UNCHANGED <<fileVars, scriptVars, runnerVars, scanVars, outputVars>>

\* line 217: parent.kill(); the killed process is gone at once
Kill_Parent ==
  /\ n_pc = "st_kill_kids"
  /\ n_kids = {}
  /\ IF alive[n_pid]
       THEN /\ kill_sent' = kill_sent \cup {Root}
            /\ alive' = [alive EXCEPT ![n_pid] = FALSE]
       ELSE UNCHANGED <<kill_sent, alive>>
  /\ Goto("st_finally")
  /\ UNCHANGED <<process, stop_event, monitor_thread, status_callback,
                 launched, mon_pc, ninaEnv, n_pid, n_kids,
                 term_sent, waited>>
  /\ UNCHANGED <<fileVars, scriptVars, runnerVars, scanVars, outputVars>>

\* (a stop() whose finally clause forgot the handle)
Stop_Finally_KeepsHandle ==
  /\ n_pc = "st_finally"
  /\ Goto("st_join")
  /\ UNCHANGED <<process, stop_event, monitor_thread, status_callback, launched,
                 alive, mon_pc, ninaEnv, n_pid, n_kids, stopGhost>>
  /\ UNCHANGED <<fileVars, scriptVars, runnerVars, scanVars, outputVars>>

\* lines 114-115: finally: self.process = None
Stop_Finally ==
  /\ n_pc = "st_finally"
  /\ process' = NoProc
  /\ Goto("st_join")
  /\ UNCHANGED <<stop_event, monitor_thread, status_callback, launched, alive,
                 mon_pc, ninaEnv, n_pid, n_kids, stopGhost>>
  /\ UNCHANGED <<fileVars, scriptVars, runnerVars, scanVars, outputVars>>

\* lines 117-119: the monitor thread, when alive, is joined for at most 5 s
\* and forgotten; stop() returns
Stop_Join ==
  /\ n_pc = "st_join"
  /\ IF monitor_thread # NoThread /\ ThreadAlive(monitor_thread)
       THEN monitor_thread' = NoThread
       ELSE UNCHANGED monitor_thread
  /\ Return("stopped")
  /\ ForgetSignals
  /\ UNCHANGED <<process, stop_event, status_callback, launched, alive,
                 mon_pc, ninaEnv>>
  /\ UNCHANGED <<fileVars, scriptVars, runnerVars, scanVars, outputVars>>

(* -------------------------- _monitor_process -------------------------- *)
MonGoto(k, pc) == mon_pc' = [mon_pc EXCEPT ![k] = pc]

monLocal == <<ninaEnv, n_pc, n_pid, n_kids, n_result, stopGhost>>

\* line 134: if not self.process: return
Mon_Start(k) ==
  /\ mon_pc[k] = "start"
  /\ IF process = NoProc THEN MonGoto(k, "done") ELSE MonGoto(k, "loop")
  /\ UNCHANGED <<process, stop_event, monitor_thread, status_callback,
                 launched, alive, monLocal>>
  /\ UNCHANGED <<fileVars, scriptVars, runnerVars, scanVars, outputVars>>

\* line 137: while not self._stop_event.is_set() and self.is_running():
\* up to the first read of self.process in is_running() (line 128)
Mon_LoopCond(k) ==
  /\ mon_pc[k] = "loop"
  /\ IF stop_event \/ process = NoProc
       THEN MonGoto(k, "cleanup")
       ELSE MonGoto(k, "running2")
  /\ UNCHANGED <<process, stop_event, monitor_thread, status_callback,
                 launched, alive, monLocal>>
  /\ UNCHANGED <<fileVars, scriptVars, runnerVars, scanVars, outputVars>>

\* is_running() line 129: self.process.poll() is None; AttributeError when
\* self.process is None by now: raised in the while condition, outside the
\* try block, it ends the thread before _cleanup
Mon_IsRunning2(k) ==
  /\ mon_pc[k] = "running2"
  /\ IF process = NoProc THEN MonGoto(k, "done")
     ELSE IF alive[process] THEN MonGoto(k, "body")
     ELSE MonGoto(k, "cleanup")
  /\ UNCHANGED <<process, stop_event, monitor_thread, status_callback,
                 launched, alive, monLocal>>
  /\ UNCHANGED <<fileVars, scriptVars, runnerVars, scanVars, outputVars>>

\* What readline can give for stdout or stderr of process p: a line, the empty
\* string at end of file (the process has exited), or an error (a closed
\* stream, undecodable bytes).
ReadOutcomes(p) ==
  IF alive[p] THEN {"line", "error"} ELSE {"line", "empty", "error"}

\* lines 140-151, one iteration of the loop body: a line of stdout goes to
\* _handle_nina_output, which catches what the status callback raises; a
\* line of stderr is logged; time.sleep(0.1).  Any other exception, the
\* AttributeError of a handle that is None included, breaks the loop
\* (lines 153-155).
Mon_ReadLines(k, outcome) ==
  /\ mon_pc[k] = "body"
  /\ IF process = NoProc THEN MonGoto(k, "cleanup")
     ELSE /\ outcome \in ReadOutcomes(process)
          /\ IF outcome = "error" THEN MonGoto(k, "cleanup")
             ELSE MonGoto(k, "loop")
  /\ UNCHANGED <<process, stop_event, monitor_thread, status_callback,
                 launched, alive, monLocal>>
  /\ UNCHANGED <<fileVars, scriptVars, runnerVars, scanVars, outputVars>>

\* lines 169-173: what _handle_nina_output does with a line: nothing when no
\* callback is registered, else it invokes the callback
handle_nina_output(raises) ==
  IF status_callback = None THEN "missed"
  ELSE IF raises THEN "raised" ELSE "returned"

\* the iteration of monitor thread k is recorded
Forwarded(k, result) ==
  /\ mon_cb' = [mon_cb EXCEPT ![k] = result]
  /\ mon_raised' = [mon_raised EXCEPT ![k] = @ \/ result = "raised"]

\* (a _handle_nina_output that lets the error of the status callback go: it
\* reaches the except clause of line 153, which breaks the loop)
Mon_Forward_NotCaught(k, outcome, raises) ==
  /\ mon_pc[k] = "body"
  /\ IF process = NoProc
       THEN MonGoto(k, "cleanup") /\ Forwarded(k, "none")
       ELSE /\ outcome \in ReadOutcomes(process)
            /\ CASE outcome = "error" ->
                      MonGoto(k, "cleanup") /\ Forwarded(k, "none")
                 [] outcome = "empty" ->
                      MonGoto(k, "loop") /\ Forwarded(k, "none")
                 [] outcome = "line" ->
                      /\ Forwarded(k, handle_nina_output(raises))
                      /\ IF handle_nina_output(raises) = "raised"
                           THEN MonGoto(k, "cleanup")
                           ELSE MonGoto(k, "loop")
  /\ UNCHANGED <<process, stop_event, monitor_thread, status_callback,
                 launched, alive, monLocal>>
  /\ UNCHANGED <<fileVars, scriptVars, runnerVars, scanVars>>

\* lines 140-151 again, with the status callback in view.  A non-empty line
\* of stdout goes to _handle_nina_output (line 143), which invokes
\* self._status_callback when one is registered and catches the Exception it
\* raises (lines 169-173).
Mon_Forward(k, outcome, raises) ==
  /\ mon_pc[k] = "body"
  /\ IF process = NoProc
       THEN MonGoto(k, "cleanup") /\ Forwarded(k, "none")
       ELSE /\ outcome \in ReadOutcomes(process)
            /\ CASE outcome = "error" ->
                      MonGoto(k, "cleanup") /\ Forwarded(k, "none")
                 [] outcome = "empty" ->
                      MonGoto(k, "loop") /\ Forwarded(k, "none")
                 [] outcome = "line" ->
                      MonGoto(k, "loop") /\ Forwarded(k, handle_nina_output(raises))
  /\ UNCHANGED <<process, stop_event, monitor_thread, status_callback,
                 launched, alive, monLocal>>
  /\ UNCHANGED <<fileVars, scriptVars, runnerVars, scanVars>>

\* _cleanup, line 226: if self.process:
Cleanup_IfProcess(k) ==
  /\ mon_pc[k] = "cleanup"
  /\ IF process = NoProc THEN MonGoto(k, "done") ELSE MonGoto(k, "close")
  /\ UNCHANGED <<process, stop_event, monitor_thread, status_callback,
                 launched, alive, monLocal>>
  /\ UNCHANGED <<fileVars, scriptVars, runnerVars, scanVars, outputVars>>

\* lines 229-235: self.process.stdout.close(), self.process.stderr.close(),
\* self.process.poll(); AttributeError when self.process is None by now,
\* caught at line 239
Cleanup_Close(k) ==
  /\ mon_pc[k] = "close"
  /\ IF process = NoProc
       THEN MonGoto(k, "finally")
       ELSE MonGoto(k, "closed")
  /\ UNCHANGED <<process, stop_event, monitor_thread, status_callback,
                 launched, alive, monLocal>>
  /\ UNCHANGED <<fileVars, scriptVars, runnerVars, scanVars, outputVars>>

\* lines 241-242: finally: self.process = None
Cleanup_Finally(k) ==
  /\ mon_pc[k] \in {"finally", "closed"}
  /\ process' = NoProc
  /\ MonGoto(k, "done")
  /\ UNCHANGED <<stop_event, monitor_thread, status_callback, launched, alive,
                 monLocal>>
  /\ UNCHANGED <<fileVars, scriptVars, runnerVars, scanVars, outputVars>>

NinaNext ==
  \/ \E p \in Procs : ProcExit(p)
  \/ \E exe \in BOOLEAN, seq \in BOOLEAN : Start_IsRunning1(exe, seq)
  \/ Start_IsRunning2
  \/ Start_CheckExe
  \/ Start_CheckSeq
  \/ Start_SetCallback
  \/ \E ok \in BOOLEAN : Start_Popen(ok)
  \/ Start_Thread
  \/ Stop_SetEvent
  \/ Stop_IfProcess
  \/ Stop_ReadPid
  \/ \E kids \in SUBSET Children : Terminate_Enumerate(kids)
  \/ \E c \in Children, gone \in BOOLEAN : Terminate_Child(c, gone)
  \/ Terminate_Parent
  \/ Stop_WaitBegin
  \/ Stop_WaitEnd
  \/ Stop_KillReadPid
  \/ \E kids \in SUBSET Children : Kill_Enumerate(kids)
  \/ \E c \in Children, gone \in BOOLEAN : Kill_Child(c, gone)
  \/ Kill_Parent
  \/ Stop_Finally
  \/ Stop_Join
  \/ \E k \in Monitors : Mon_Start(k)
  \/ \E k \in Monitors : Mon_LoopCond(k)
  \/ \E k \in Monitors : Mon_IsRunning2(k)
  \/ \E k \in Monitors, o \in {"line", "empty", "error"} : Mon_ReadLines(k, o)
  \/ \E k \in Monitors : Cleanup_IfProcess(k)
  \/ \E k \in Monitors : Cleanup_Close(k)
  \/ \E k \in Monitors : Cleanup_Finally(k)

\* start_sequence, the exit of the process and the monitor thread, the
\* status callback in view; stop() is not called
OutputNext ==
  \/ \E p \in Procs : ProcExit(p)
  \/ \E exe \in BOOLEAN, seq \in BOOLEAN : Start_IsRunning1(exe, seq)
  \/ Start_IsRunning2
  \/ Start_CheckExe
  \/ Start_CheckSeq
  \/ Start_SetCallback
  \/ \E ok \in BOOLEAN : Start_Popen(ok)
  \/ Start_Thread
  \/ \E k \in Monitors : Mon_Start(k)
  \/ \E k \in Monitors : Mon_LoopCond(k)
  \/ \E k \in Monitors : Mon_IsRunning2(k)
  \/ \E k \in Monitors, o \in {"line", "empty", "error"}, r \in BOOLEAN :
        Mon_Forward(k, o, r)
  \/ \E k \in Monitors : Cleanup_IfProcess(k)
  \/ \E k \in Monitors : Cleanup_Close(k)
  \/ \E k \in Monitors : Cleanup_Finally(k)

(***************************************************************************)
(* ScriptExecutor                                                          *)
(***************************************************************************)
NoQueue == 0
NoCall == 0
HookTypes == {"post_task", "night_end"}
Callers == 1..NumCallers
Calls == 1..MaxCalls
Workers == 1..MaxCalls        \* a call creates at most one worker thread
QueueIds == 1..MaxCalls       \* a call creates at most one Queue

ScriptInit ==
  /\ script_queues = [h \in HookTypes |-> NoQueue]
  /\ running_threads = [h \in HookTypes |-> NoThread]
  /\ queues = [q \in QueueIds |-> <<>>]
  /\ n_queues = 0
  /\ n_workers = 0
  /\ n_calls = 0
  /\ script_ok = [c \in Callers |-> TRUE]
  /\ c_pc = [c \in Callers |-> "idle"]
  /\ c_type = [c \in Callers |-> None]
  /\ c_call = [c \in Callers |-> NoCall]
  /\ c_thread = [c \in Callers |-> NoThread]
  /\ w_pc = [w \in Workers |-> "unborn"]
  /\ w_type = [w \in Workers |-> None]
  /\ w_queue = [w \in Workers |-> NoQueue]
  /\ w_call = [w \in Workers |-> NoCall]
  /\ inv_type = [i \in Calls |-> None]
  /\ inv_state = [i \in Calls |-> "none"]
  /\ inv_after = [i \in Calls |-> {}]
  /\ sa_pc = "idle"
  /\ sa_todo = {}
  /\ executions = [h \in HookTypes |-> 0]

\* threading.Thread.is_alive(): started and not ended (_script_worker never
\* leaves its while True loop)
WorkerAlive(w) == w_pc[w] \notin {"unborn", "created", "dead"}

\* execute_script returns: the locals of the call are dropped
CallerReturn(c) ==
  /\ c_pc' = [c_pc EXCEPT ![c] = "idle"]
  /\ c_type' = [c_type EXCEPT ![c] = None]
  /\ c_call' = [c_call EXCEPT ![c] = NoCall]
  /\ c_thread' = [c_thread EXCEPT ![c] = NoThread]
  /\ script_ok' = [script_ok EXCEPT ![c] = TRUE]

CallerGoto(c, pc) ==
  /\ c_pc' = [c_pc EXCEPT ![c] = pc]
  /\ UNCHANGED <<c_type, c_call, script_ok>>

registry == <<script_queues, running_threads, queues, n_queues, n_workers>>
workerVars == <<w_pc, w_type, w_queue, w_call>>
callerVars == <<script_ok, c_pc, c_type, c_call, c_thread>>
invVars == <<inv_type, inv_state, inv_after>>
stopAllVars == <<sa_pc, sa_todo>>

(* --------------------------- execute_script --------------------------- *)
\* execute_script(script_type, args) is called; ok says whether line 49
\* will find the script configured and present.  The calling threads are
\* interchangeable, so of the idle ones the lowest makes the call.  No hook
\* is triggered any more once the shutdown has come to stop_all.
Execute_Call(c, h, ok) ==
  /\ c_pc[c] = "idle"
  /\ sa_pc = "idle"
  /\ \A d \in Callers : c_pc[d] = "idle" => c <= d
  /\ n_calls < MaxCalls
  /\ n_calls' = n_calls + 1
  /\ c_pc' = [c_pc EXCEPT ![c] = "check"]
  /\ c_type' = [c_type EXCEPT ![c] = h]
  /\ c_call' = [c_call EXCEPT ![c] = n_calls + 1]
  /\ script_ok' = [script_ok EXCEPT ![c] = ok]
  /\ inv_type' = [inv_type EXCEPT ![n_calls + 1] = h]
  /\ inv_state' = [inv_state EXCEPT ![n_calls + 1] = "calling"]
  /\ inv_after' = [inv_after EXCEPT ![n_calls + 1] =
                     {j \in Calls : /\ inv_type[j] = h
                                    /\ inv_state[j] \in {"queued", "running", "done"}}]
  /\ UNCHANGED <<registry, workerVars, c_thread>>
  /\ UNCHANGED stopAllVars
  /\ UNCHANGED executions
  /\ UNCHANGED <<fileVars, ninaVars, runnerVars, scanVars, outputVars>>

\* (an execute_script that creates the queue before it looks at the script)
Execute_Check_QueueFirst(c) ==
  /\ c_pc[c] = "check"
  /\ n_queues' = n_queues + 1
  /\ script_queues' = [script_queues EXCEPT ![c_type[c]] = n_queues + 1]
  /\ IF script_ok[c]
       THEN /\ CallerGoto(c, "thread_check")
            /\ UNCHANGED <<c_thread, inv_state>>
       ELSE /\ CallerReturn(c)
            /\ inv_state' = [inv_state EXCEPT ![c_call[c]] = "rejected"]
  /\ UNCHANGED <<running_threads, queues, n_workers, n_calls, workerVars,
                 inv_type, inv_after>>
  /\ UNCHANGED stopAllVars
  /\ UNCHANGED executions
  /\ UNCHANGED <<fileVars, ninaVars, runnerVars, scanVars, outputVars>>

\* lines 48-51: if not script_path or not Path(script_path).exists():
\*                  return False
Execute_Check(c) ==
  /\ c_pc[c] = "check"
  /\ IF script_ok[c]
       THEN /\ CallerGoto(c, "queue_check")
            /\ UNCHANGED <<c_thread, inv_state>>
       ELSE /\ CallerReturn(c)
            /\ inv_state' = [inv_state EXCEPT ![c_call[c]] = "rejected"]
  /\ UNCHANGED <<registry, n_calls, workerVars, inv_type, inv_after>>
  /\ UNCHANGED stopAllVars
  /\ UNCHANGED executions
  /\ UNCHANGED <<fileVars, ninaVars, runnerVars, scanVars, outputVars>>

\* line 55: if script_type not in self.script_queues:
Execute_QueueCheck(c) ==
  /\ c_pc[c] = "queue_check"
  /\ IF script_queues[c_type[c]] = NoQueue
       THEN CallerGoto(c, "queue_new")
       ELSE CallerGoto(c, "thread_check")
  /\ UNCHANGED <<registry, n_calls, workerVars, c_thread, invVars>>
  /\ UNCHANGED stopAllVars
  /\ UNCHANGED executions
  /\ UNCHANGED <<fileVars, ninaVars, runnerVars, scanVars, outputVars>>

\* line 56: self.script_queues[script_type] = Queue()
Execute_QueueNew(c) ==
  /\ c_pc[c] = "queue_new"
  /\ n_queues' = n_queues + 1
  /\ script_queues' = [script_queues EXCEPT ![c_type[c]] = n_queues + 1]
  /\ CallerGoto(c, "thread_check")
  /\ UNCHANGED <<running_threads, queues, n_workers, n_calls, workerVars,
                 c_thread, invVars>>
  /\ UNCHANGED stopAllVars
  /\ UNCHANGED executions
  /\ UNCHANGED <<fileVars, ninaVars, runnerVars, scanVars, outputVars>>

\* line 59: if script_type not in self.running_threads
\*             or not self.running_threads[script_type].is_alive():
Execute_ThreadCheck(c) ==
  /\ c_pc[c] = "thread_check"
  /\ IF \/ running_threads[c_type[c]] = NoThread
        \/ ~WorkerAlive(running_threads[c_type[c]])
       THEN CallerGoto(c, "thread_new")
       ELSE CallerGoto(c, "put")
  /\ UNCHANGED <<registry, n_calls, workerVars, c_thread, invVars>>
  /\ UNCHANGED stopAllVars
  /\ UNCHANGED executions
  /\ UNCHANGED <<fileVars, ninaVars, runnerVars, scanVars, outputVars>>

\* lines 60-66: thread = threading.Thread(...);
\*              self.running_threads[script_type] = thread
Execute_ThreadNew(c) ==
  /\ c_pc[c] = "thread_new"
  /\ n_workers' = n_workers + 1
  /\ running_threads' = [running_threads EXCEPT ![c_type[c]] = n_workers + 1]
  /\ c_thread' = [c_thread EXCEPT ![c] = n_workers + 1]
  /\ w_pc' = [w_pc EXCEPT ![n_workers + 1] = "created"]
  /\ w_type' = [w_type EXCEPT ![n_workers + 1] = c_type[c]]
  /\ CallerGoto(c, "thread_start")
  /\ UNCHANGED <<script_queues, queues, n_queues, n_calls, w_queue, w_call,
                 invVars>>
  /\ UNCHANGED stopAllVars
  /\ UNCHANGED executions
  /\ UNCHANGED <<fileVars, ninaVars, runnerVars, scanVars, outputVars>>

\* line 67: thread.start()
Execute_ThreadStart(c) ==
  /\ c_pc[c] = "thread_start"
  /\ w_pc' = [w_pc EXCEPT ![c_thread[c]] = "bind"]
  /\ CallerGoto(c, "put")
  /\ UNCHANGED <<registry, n_calls, w_type, w_queue, w_call, c_thread, invVars>>
  /\ UNCHANGED stopAllVars
  /\ UNCHANGED executions
  /\ UNCHANGED <<fileVars, ninaVars, runnerVars, scanVars, outputVars>>

\* lines 70-71: self.script_queues[script_type].put(args or {}); return True
Execute_Put(c) ==
  /\ c_pc[c] = "put"
  /\ queues' = [queues EXCEPT ![script_queues[c_type[c]]] = Append(@, c_call[c])]
  /\ inv_state' = [inv_state EXCEPT ![c_call[c]] = "queued"]
  /\ CallerReturn(c)
  /\ UNCHANGED <<script_queues, running_threads, n_queues, n_workers, n_calls,
                 workerVars, inv_type, inv_after>>
  /\ UNCHANGED stopAllVars
  /\ UNCHANGED executions
  /\ UNCHANGED <<fileVars, ninaVars, runnerVars, scanVars, outputVars>>

(* --------------------------- _script_worker --------------------------- *)
\* line 85: queue = self.script_queues[script_type]
Worker_Bind(w) ==
  /\ w_pc[w] = "bind"
  /\ w_queue' = [w_queue EXCEPT ![w] = script_queues[w_type[w]]]
  /\ w_pc' = [w_pc EXCEPT ![w] = "get"]
  /\ UNCHANGED <<registry, n_calls, callerVars, w_type, w_call, invVars>>
  /\ UNCHANGED stopAllVars
  /\ UNCHANGED executions
  /\ UNCHANGED <<fileVars, ninaVars, runnerVars, scanVars, outputVars>>

\* (a dispatcher that runs one script at a time, whatever its type)
CanDequeue_OneScriptAtATime(w) ==
  /\ queues[w_queue[w]] # <<>>
  /\ \A v \in Workers : w_pc[v] # "exec"

\* queue.get() blocks while the worker's queue is empty, and on nothing else
CanDequeue(w) == queues[w_queue[w]] # <<>>

\* line 89: args = queue.get(); line 90: _execute_single_script begins.  The
\* None that stop_all put (NoCall) is an args like any other to this code.
Worker_Get(w) ==
  /\ w_pc[w] = "get"
  /\ CanDequeue(w)
  /\ w_call' = [w_call EXCEPT ![w] = Head(queues[w_queue[w]])]
  /\ queues' = [queues EXCEPT ![w_queue[w]] = Tail(@)]
  /\ inv_state' = IF Head(queues[w_queue[w]]) = NoCall
                     THEN inv_state
                     ELSE [inv_state EXCEPT ![Head(queues[w_queue[w]])] = "running"]
  /\ w_pc' = [w_pc EXCEPT ![w] = "exec"]
  /\ UNCHANGED <<script_queues, running_threads, n_queues, n_workers, n_calls,
                 callerVars, w_type, w_queue, inv_type, inv_after>>
  /\ UNCHANGED stopAllVars
  /\ UNCHANGED executions
  /\ UNCHANGED <<fileVars, ninaVars, runnerVars, scanVars, outputVars>>

\* How a script can end: well; with an Exception (a non-zero exit of a shell
\* script is CalledProcessError), which line 111 catches; or with SystemExit
\* (sys.exit in a Python script, which runs inside the worker thread, lines
\* 133 and 138), which is no Exception and is caught nowhere.
ScriptOutcomes == {"ok", "error", "exit"}

\* line 106: script_path.suffix == '.py' or not
Suffixes == {".py", ".sh"}

\* Whether _execute_single_script(script_path, args) comes to run the script.
\* A Python script is imported and its main(args) called whatever args is
\* (lines 133, 138).  For a shell script _convert_args_to_cmd (line 156)
\* comes first, and args.items() (line 192) raises AttributeError when args
\* is the None of stop_all: subprocess.run (line 162) is not reached.
RunsScript(suffix, call) == suffix = ".py" \/ call # NoCall

\* the ways an invocation of a script with that suffix and those args can end
EndsWith(suffix, call) ==
  IF suffix = ".py" THEN ScriptOutcomes
  ELSE IF call = NoCall THEN {"error"} ELSE {"ok", "error"}

\* lines 90-93: the script ends, well or with an error that
\* _execute_single_script (line 111) logs; queue.task_done(); next iteration.
\* SystemExit leaves _execute_single_script and the loop: the thread ends.
Worker_Done(w, outcome, suffix) ==
  /\ w_pc[w] = "exec"
  /\ outcome \in EndsWith(suffix, w_call[w])
  /\ inv_state' = IF w_call[w] = NoCall
                     THEN inv_state
                     ELSE [inv_state EXCEPT ![w_call[w]] = "done"]
  /\ executions' = IF RunsScript(suffix, w_call[w])
                      THEN [executions EXCEPT ![w_type[w]] = @ + 1]
                      ELSE executions
  /\ w_call' = [w_call EXCEPT ![w] = NoCall]
  /\ w_pc' = [w_pc EXCEPT ![w] = IF outcome = "exit" THEN "dead" ELSE "get"]
  /\ UNCHANGED <<registry, n_calls, callerVars, w_type, w_queue, inv_type,
                 inv_after>>
  /\ UNCHANGED stopAllVars
  /\ UNCHANGED <<fileVars, ninaVars, runnerVars, scanVars, outputVars>>

(* ------------------------------ stop_all ------------------------------ *)
\* the keys of self.running_threads
ThreadKeys == {h \in HookTypes : running_threads[h] # NoThread}

\* stop_all() is called: once, at the end of cleanup (hevelius-runner.py line
\* 239), when the threads that trigger hooks have finished their calls (the
\* file watcher is joined on line 233, night_end triggered on line 236).
\* Line 202: the iteration over self.running_threads.items() begins.
StopAll_Call ==
  /\ sa_pc = "idle"
  /\ \A c \in Callers : c_pc[c] = "idle"
  /\ sa_pc' = "next"
  /\ sa_todo' = ThreadKeys
  /\ UNCHANGED <<registry, n_calls, workerVars, callerVars, invVars>>
  /\ UNCHANGED executions
  /\ UNCHANGED <<fileVars, ninaVars, runnerVars, scanVars, outputVars>>

\* lines 202-206: the next item of the iteration; for a thread that
\* is_alive(): self.script_queues[script_type].put(None), and
\* thread.join(timeout=5), which ends when the thread has ended or the 5 s
\* are over: what the other threads do during the join they do before the
\* next step of this thread.  After the last item stop_all returns.
StopAll_Next(h) ==
  /\ sa_pc = "next"
  /\ IF sa_todo = {}
       THEN /\ sa_pc' = "returned"
            /\ UNCHANGED <<queues, sa_todo>>
       ELSE /\ h \in sa_todo
            /\ sa_todo' = sa_todo \ {h}
            /\ queues' = IF WorkerAlive(running_threads[h])
                           THEN [queues EXCEPT ![script_queues[h]] =
                                   Append(@, NoCall)]
                           ELSE queues
            /\ UNCHANGED sa_pc
  /\ UNCHANGED <<script_queues, running_threads, n_queues, n_workers, n_calls,
                 workerVars, callerVars, invVars>>
  /\ UNCHANGED executions
  /\ UNCHANGED <<fileVars, ninaVars, runnerVars, scanVars, outputVars>>

ScriptNext ==
  \/ \E c \in Callers, h \in HookTypes, ok \in BOOLEAN : Execute_Call(c, h, ok)
  \/ \E c \in Callers : Execute_Check(c)
  \/ \E c \in Callers : Execute_QueueCheck(c)
  \/ \E c \in Callers : Execute_QueueNew(c)
  \/ \E c \in Callers : Execute_ThreadCheck(c)
  \/ \E c \in Callers : Execute_ThreadNew(c)
  \/ \E c \in Callers : Execute_ThreadStart(c)
  \/ \E c \in Callers : Execute_Put(c)
  \/ \E w \in Workers : Worker_Bind(w)
  \/ \E w \in Workers : Worker_Get(w)
  \/ \E w \in Workers, outcome \in ScriptOutcomes, suffix \in Suffixes :
        Worker_Done(w, outcome, suffix)
  \/ StopAll_Call
  \/ \E h \in HookTypes : StopAll_Next(h)

(***************************************************************************)
(* ObservatoryAutomation (src/src/hevelius-runner.py): the main thread in  *)
(* run() and cleanup().  The collaborators are seen at their interface:    *)
(* each call returns one of the results its code can give, or raises.      *)
(***************************************************************************)
Tasks == 1..MaxTasks
\* the list get_night_plan can return (None and [] are alike to line 128)
TaskLists == SeqsUpTo(Tasks, MaxTasks)
\* response.json().get('status') of check_task_status
Statuses == {"completed", "pending", None}
NoStatus == [t \in Tasks |-> None]

\* (a filter that lets every task through)
PendingTasks_KeepsAll(tasks, st) == tasks

\* lines 133-136: [task for task in tasks
\*                 if check_task_status(task['task_id']) != 'completed']
PendingTasks(tasks, st) ==
  LET NotCompleted(t) == st[t] # "completed"
  IN SelectSeq(tasks, NotCompleted)

planLocal == <<r_tasks, r_status, r_pending>>

\* datetime.now().date(): the calendar dates of one run, in order
Dates == 1..MaxDates
observatory_id == "default"

\* task_manager.py line 82:
\*   output_path = self.output_dir / f"sequence_{observatory_id}_{date}.json"
SequencePath(obs, date) == <<"sequence", obs, date>>

mainVars == <<r_pc, r_ticks, r_date, current_sequence_path, r_run_path,
              r_night, r_prev_night, r_running, r_watch,
              r_events, r_exit, r_raised, r_failed, r_start_failed, planLocal>>
fitsVars == <<h_pc, h_path, h_arrivals, h_handled, h_reported, h_triggered>>

LoopPcs == {"pred", "night_start", "fetch", "status", "compile", "start_seq",
            "sleep", "err_sleep"}
StartupPcs == {"startup", "connect", "watch"}
CleanupPcs == {"cl_running", "cl_stop", "cl_watch", "cl_night_end",
               "cl_stop_all"}

RunnerInit ==
  /\ r_pc = "startup"
  /\ r_ticks = 0
  /\ r_date = 1
  /\ current_sequence_path = None
  /\ r_run_path = None
  /\ r_night = FALSE
  /\ r_prev_night = FALSE
  /\ r_running = FALSE
  /\ r_watch = FALSE
  /\ r_events = {}
  /\ r_exit = "none"
  /\ r_raised = FALSE
  /\ r_failed = FALSE
  /\ r_start_failed = FALSE
  /\ r_tasks = <<>>
  /\ r_status = NoStatus
  /\ r_pending = <<>>
  /\ h_pc = "idle"
  /\ h_path = None
  /\ h_arrivals = 0
  /\ h_handled = {}
  /\ h_reported = {}
  /\ h_triggered = {}

RunGoto(pc) == r_pc' = pc

\* the call is made: it is recorded
Called(e) == r_events' = r_events \cup {e}

\* An error leaves the try block of run() (lines 82-113): the finally clause
\* on lines 115-116 runs cleanup(), after which the error leaves run().
RunFails ==
  /\ r_pc' = "cl_running"
  /\ r_exit' = "error"

\* line 113 / line 106 is reached: the loop goes on
runLocal == <<r_ticks, r_date, r_night, r_prev_night>>

\* the sequence file of the object and the one the supervised process reads
seqVars == <<current_sequence_path, r_run_path>>

(* -------------------------------- run --------------------------------- *)
\* (a run() that goes on to the API without triggering the startup hook)
Run_Startup_Skipped(out) ==
  /\ r_pc = "startup"
  /\ IF out = "raise"
       THEN RunFails
       ELSE RunGoto("connect") /\ UNCHANGED r_exit
  /\ UNCHANGED <<runLocal, r_running, r_watch, r_events, r_raised, r_failed,
                 r_start_failed>>
  /\ UNCHANGED planLocal
  /\ UNCHANGED seqVars
  /\ UNCHANGED fitsVars
  /\ UNCHANGED <<fileVars, ninaVars, scriptVars, scanVars, outputVars>>

\* line 86: self.script_executor.execute_script('startup')
Run_Startup(out) ==
  /\ r_pc = "startup"
  /\ Called("startup")
  /\ IF out = "raise"
       THEN RunFails
       ELSE RunGoto("connect") /\ UNCHANGED r_exit
  /\ UNCHANGED <<runLocal, r_running, r_watch, r_raised, r_failed,
                 r_start_failed>>
  /\ UNCHANGED planLocal
  /\ UNCHANGED seqVars
  /\ UNCHANGED fitsVars
  /\ UNCHANGED <<fileVars, ninaVars, scriptVars, scanVars, outputVars>>

\* line 89: self.api_client.connect(); get_version and login raise
\* requests.RequestException when the API cannot be reached
Run_Connect(out) ==
  /\ r_pc = "connect"
  /\ Called("connect")
  /\ IF out = "raise"
       THEN RunFails
       ELSE RunGoto("watch") /\ UNCHANGED r_exit
  /\ UNCHANGED <<runLocal, r_running, r_watch, r_raised, r_failed,
                 r_start_failed>>
  /\ UNCHANGED planLocal
  /\ UNCHANGED seqVars
  /\ UNCHANGED fitsVars
  /\ UNCHANGED <<fileVars, ninaVars, scriptVars, scanVars, outputVars>>

\* lines 92-94: self.file_monitor.start(self.handle_new_fits_file), which
\* ends with self.observer.start() (file_monitor.py line 112), or raises
\* before it (mkdir, schedule)
Run_StartWatcher(out) ==
  /\ r_pc = "watch"
  /\ Called("watch")
  /\ IF out = "raise"
       THEN RunFails /\ UNCHANGED r_watch
       ELSE RunGoto("pred") /\ r_watch' = TRUE /\ UNCHANGED r_exit
  /\ UNCHANGED <<runLocal, r_running, r_raised, r_failed, r_start_failed>>
  /\ UNCHANGED planLocal
  /\ UNCHANGED seqVars
  /\ UNCHANGED fitsVars
  /\ UNCHANGED <<fileVars, ninaVars, scriptVars, scanVars, outputVars>>

\* line 98: current_date = datetime.now().date(), which is the date of the
\* iteration before or a later one; line 101: if self.is_night_time():
Run_IsNight(night, date) ==
  /\ r_pc = "pred"
  /\ date \in Dates /\ date >= r_date
  /\ r_ticks < MaxTicks
  /\ r_ticks' = r_ticks + 1
  /\ r_date' = date
  /\ r_prev_night' = r_night
  /\ r_night' = night
  /\ Called("pred")
  /\ IF night
       THEN RunGoto("night_start") /\ UNCHANGED <<r_failed, r_start_failed>>
       ELSE RunGoto("sleep") /\ r_failed' = FALSE /\ r_start_failed' = FALSE
  /\ UNCHANGED <<r_running, r_watch, r_exit, r_raised>>
  /\ UNCHANGED planLocal
  /\ UNCHANGED seqVars
  /\ UNCHANGED fitsVars
  /\ UNCHANGED <<fileVars, ninaVars, scriptVars, scanVars, outputVars>>

\* line 102: self.script_executor.execute_script('night_start'); an error
\* goes to the except clause of lines 111-113
Run_NightStart(out) ==
  /\ r_pc = "night_start"
  /\ Called("night_start")
  /\ IF out = "raise" THEN RunGoto("err_sleep") ELSE RunGoto("fetch")
  /\ UNCHANGED <<runLocal, r_running, r_watch, r_exit, r_raised, r_failed,
                 r_start_failed>>
  /\ UNCHANGED planLocal
  /\ UNCHANGED seqVars
  /\ UNCHANGED fitsVars
  /\ UNCHANGED <<fileVars, ninaVars, scriptVars, scanVars, outputVars>>

\* process_night_plan ends (return, or its except clause on lines 158-159)
\* and run() comes to line 106
PlanEnds(failed) ==
  /\ RunGoto("sleep")
  /\ r_failed' = failed
  /\ r_tasks' = <<>>
  /\ r_status' = NoStatus
  /\ r_pending' = <<>>

\* (a process_night_plan that lets the error of the plan fetch go)
Plan_Fetch_Reraises(out) ==
  /\ r_pc = "fetch"
  /\ Called("fetch")
  /\ CASE out = "tasks" -> /\ RunGoto("status")
                            /\ \E ts \in TaskLists \ {<<>>} : r_tasks' = ts
                            /\ UNCHANGED <<r_failed, r_exit, r_status, r_pending>>
       [] out = "none" -> PlanEnds(FALSE) /\ UNCHANGED r_exit
       [] out = "raise" -> RunFails /\ r_failed' = TRUE /\ UNCHANGED planLocal
  /\ UNCHANGED <<runLocal, r_running, r_watch, r_raised, r_start_failed>>
  /\ UNCHANGED seqVars
  /\ UNCHANGED fitsVars
  /\ UNCHANGED <<fileVars, ninaVars, scriptVars, scanVars, outputVars>>

\* lines 127-130: tasks = self.api_client.get_night_plan(...);
\* if not tasks: return
Plan_Fetch(out) ==
  /\ r_pc = "fetch"
  /\ Called("fetch")
  /\ CASE out = "tasks" -> /\ RunGoto("status")
                            /\ \E ts \in TaskLists \ {<<>>} : r_tasks' = ts
                            /\ UNCHANGED <<r_failed, r_status, r_pending>>
       [] out = "none" -> PlanEnds(FALSE)
       [] out = "raise" -> PlanEnds(TRUE)
  /\ UNCHANGED <<runLocal, r_running, r_watch, r_exit, r_raised,
                 r_start_failed>>
  /\ UNCHANGED seqVars
  /\ UNCHANGED fitsVars
  /\ UNCHANGED <<fileVars, ninaVars, scriptVars, scanVars, outputVars>>

\* lines 133-140: the tasks whose check_task_status is not 'completed';
\* if not pending_tasks: return
\* st is what check_task_status returns; raises: one of the checks raised
\* requests.RequestException
Plan_Status(st, raises) ==
  /\ r_pc = "status"
  /\ IF raises
       THEN PlanEnds(TRUE)
       ELSE IF PendingTasks(r_tasks, st) = <<>>
       THEN PlanEnds(FALSE)
       ELSE /\ RunGoto("compile")
            /\ r_status' = [t \in Tasks |->
                              IF \E i \in 1..Len(r_tasks) : r_tasks[i] = t
                                THEN st[t] ELSE None]
            /\ r_pending' = PendingTasks(r_tasks, st)
            /\ UNCHANGED <<r_failed, r_tasks>>
  /\ UNCHANGED <<runLocal, r_running, r_watch, r_events, r_exit, r_raised,
                 r_start_failed>>
  /\ UNCHANGED seqVars
  /\ UNCHANGED fitsVars
  /\ UNCHANGED <<fileVars, ninaVars, scriptVars, scanVars, outputVars>>

\* lines 143-147: self.current_sequence_path =
\*   self.task_manager.prepare_sequence_file(pending_tasks, observatory_id,
\*   date): the file of that observatory and date is written (task_manager.py
\* lines 82-84) and its path returned, or an error goes to line 158
Plan_Compile(out) ==
  /\ r_pc = "compile"
  /\ Called("compile")
  /\ IF out = "raise"
       THEN PlanEnds(TRUE)
       ELSE RunGoto("start_seq") /\ UNCHANGED <<r_failed, planLocal>>
  /\ current_sequence_path' = IF out = "raise" THEN current_sequence_path
                                ELSE SequencePath(observatory_id, r_date)
  /\ UNCHANGED r_run_path
  /\ UNCHANGED <<runLocal, r_running, r_watch, r_exit, r_raised,
                 r_start_failed>>
  /\ UNCHANGED fitsVars
  /\ UNCHANGED <<fileVars, ninaVars, scriptVars, scanVars, outputVars>>

\* lines 150-156: self.nina_controller.start_sequence(...): True when it
\* launched the process, False when it refused or failed, or an error
\* (is_running, nina_controller.py line 129) that line 158 catches
Plan_StartSequence(out) ==
  /\ r_pc = "start_seq"
  /\ out = "True" => ~r_running
  /\ Called("start_sequence")
  /\ r_running' = (r_running \/ out = "True")
  /\ r_start_failed' = (r_start_failed \/ out = "False")
  /\ PlanEnds(out = "raise")
  /\ UNCHANGED <<runLocal, r_watch, r_exit, r_raised>>
  /\ r_run_path' = IF out = "True" THEN current_sequence_path ELSE r_run_path
  /\ UNCHANGED current_sequence_path
  /\ UNCHANGED fitsVars
  /\ UNCHANGED <<fileVars, ninaVars, scriptVars, scanVars, outputVars>>

\* line 106: time.sleep(60) is over; line 113: time.sleep(300) is over
Run_Sleep ==
  /\ r_pc \in {"sleep", "err_sleep"}
  /\ RunGoto("pred")
  /\ UNCHANGED <<runLocal, r_running, r_watch, r_events, r_exit, r_raised,
                 r_failed, r_start_failed>>
  /\ UNCHANGED planLocal
  /\ UNCHANGED seqVars
  /\ UNCHANGED fitsVars
  /\ UNCHANGED <<fileVars, ninaVars, scriptVars, scanVars, outputVars>>

\* KeyboardInterrupt in the main thread: inside the loop lines 108-110 break,
\* elsewhere it leaves the try block; either way line 116 runs cleanup().
\* (It also ends a process_night_plan under way, whose except clause does not
\* catch it.)
Run_Interrupt ==
  /\ r_pc \in StartupPcs \cup LoopPcs
  /\ RunGoto("cl_running")
  /\ r_exit' = "interrupt"
  /\ r_tasks' = <<>>
  /\ r_status' = NoStatus
  /\ r_pending' = <<>>
  /\ UNCHANGED <<runLocal, r_running, r_watch, r_events, r_raised, r_failed,
                 r_start_failed>>
  /\ UNCHANGED seqVars
  /\ UNCHANGED fitsVars
  /\ UNCHANGED <<fileVars, ninaVars, scriptVars, scanVars, outputVars>>

\* the supervised process exits on its own
Run_ProcessExits ==
  /\ r_running
  /\ r_running' = FALSE
  /\ UNCHANGED <<r_pc, runLocal, r_watch, r_events, r_exit, r_raised, r_failed,
                 r_start_failed>>
  /\ UNCHANGED planLocal
  /\ r_run_path' = None
  /\ UNCHANGED current_sequence_path
  /\ UNCHANGED fitsVars
  /\ UNCHANGED <<fileVars, ninaVars, scriptVars, scanVars, outputVars>>

(* ------------------------------ cleanup ------------------------------- *)
\* An error leaves cleanup() (it has no try block) and then run().
CleanupRaises ==
  /\ r_pc' = "ended"
  /\ r_raised' = TRUE

\* line 229: if self.nina_controller.is_running():
Cleanup_IsRunning ==
  /\ r_pc = "cl_running"
  /\ IF r_running THEN RunGoto("cl_stop") ELSE RunGoto("cl_watch")
  /\ UNCHANGED <<runLocal, r_running, r_watch, r_events, r_exit, r_raised,
                 r_failed, r_start_failed>>
  /\ UNCHANGED planLocal
  /\ UNCHANGED seqVars
  /\ UNCHANGED fitsVars
  /\ UNCHANGED <<fileVars, ninaVars, scriptVars, scanVars, outputVars>>

\* line 230: self.nina_controller.stop(): it returns, or it raises
\* (nina_controller.py line 111, the AttributeError inside the except clause)
Cleanup_NinaStop(out) ==
  /\ r_pc = "cl_stop"
  /\ Called("nina_stop")
  /\ r_running' = FALSE
  /\ IF out = "raise"
       THEN CleanupRaises
       ELSE RunGoto("cl_watch") /\ UNCHANGED r_raised
  /\ UNCHANGED <<runLocal, r_watch, r_exit, r_failed, r_start_failed>>
  /\ UNCHANGED planLocal
  /\ r_run_path' = None
  /\ UNCHANGED current_sequence_path
  /\ UNCHANGED fitsVars
  /\ UNCHANGED <<fileVars, ninaVars, scriptVars, scanVars, outputVars>>

\* line 233: self.file_monitor.stop(): observer.stop(); observer.join()
\* (file_monitor.py lines 117-119); joining a thread that was never started
\* raises RuntimeError
Cleanup_WatchStop ==
  /\ r_pc = "cl_watch"
  /\ Called("watch_stop")
  /\ IF r_watch
       THEN RunGoto("cl_night_end") /\ UNCHANGED r_raised
       ELSE CleanupRaises
  /\ UNCHANGED <<runLocal, r_running, r_watch, r_exit, r_failed,
                 r_start_failed>>
  /\ UNCHANGED planLocal
  /\ UNCHANGED seqVars
  /\ UNCHANGED fitsVars
  /\ UNCHANGED <<fileVars, ninaVars, scriptVars, scanVars, outputVars>>

\* line 236: self.script_executor.execute_script('night_end')
Cleanup_NightEnd(out) ==
  /\ r_pc = "cl_night_end"
  /\ Called("night_end")
  /\ IF out = "raise"
       THEN CleanupRaises
       ELSE RunGoto("cl_stop_all") /\ UNCHANGED r_raised
  /\ UNCHANGED <<runLocal, r_running, r_watch, r_exit, r_failed,
                 r_start_failed>>
  /\ UNCHANGED planLocal
  /\ UNCHANGED seqVars
  /\ UNCHANGED fitsVars
  /\ UNCHANGED <<fileVars, ninaVars, scriptVars, scanVars, outputVars>>

\* lines 239-241: self.script_executor.stop_all(); cleanup() returns
Cleanup_StopAll ==
  /\ r_pc = "cl_stop_all"
  /\ Called("stop_all")
  /\ RunGoto("ended")
  /\ UNCHANGED <<runLocal, r_running, r_watch, r_exit, r_raised, r_failed,
                 r_start_failed>>
  /\ UNCHANGED planLocal
  /\ UNCHANGED seqVars
  /\ UNCHANGED fitsVars
  /\ UNCHANGED <<fileVars, ninaVars, scriptVars, scanVars, outputVars>>

(* ------------------------ handle_new_fits_file ------------------------ *)
\* The callback of the file watcher; it runs in the observer thread.
FitsFiles == {"12_m31.fits", "13_m42.fits", "_flat.fits"}

\* lines 210-222: Path(file_path).stem.split('_')[0]
extract_task_id_from_fits(p) ==
  CASE p = "12_m31.fits" -> "12"
    [] p = "13_m42.fits" -> "13"
    [] p = "_flat.fits" -> ""

\* handle_new_fits_file returns
FitsReturn ==
  /\ h_pc' = "idle"
  /\ h_path' = None
  /\ h_handled' = h_handled \cup {h_path}

\* the file detector calls self.callback(file_path)
Fits_Call(p) ==
  /\ h_pc = "idle"
  /\ h_arrivals < MaxArrivals
  /\ h_arrivals' = h_arrivals + 1
  /\ h_pc' = "extract"
  /\ h_path' = p
  /\ UNCHANGED <<h_handled, h_reported, h_triggered>>
  /\ UNCHANGED mainVars
  /\ UNCHANGED <<fileVars, ninaVars, scriptVars, scanVars, outputVars>>

\* lines 170-171: task_id = self.extract_task_id_from_fits(file_path);
\* if task_id:
Fits_Extract ==
  /\ h_pc = "extract"
  /\ IF extract_task_id_from_fits(h_path) = ""
       THEN FitsReturn
       ELSE h_pc' = "report" /\ UNCHANGED <<h_path, h_handled>>
  /\ UNCHANGED <<h_arrivals, h_reported, h_triggered>>
  /\ UNCHANGED mainVars
  /\ UNCHANGED <<fileVars, ninaVars, scriptVars, scanVars, outputVars>>

\* lines 173-177: self.api_client.update_task_status(task_id, "completed",
\* [file_path]) returns True or raises requests.RequestException, which the
\* except clause of lines 185-186 logs
Fits_Report(out) ==
  /\ h_pc = "report"
  /\ IF out = "raise"
       THEN FitsReturn /\ UNCHANGED h_reported
       ELSE /\ h_reported' = h_reported \cup
                    {<<extract_task_id_from_fits(h_path), h_path>>}
            /\ h_pc' = "trigger"
            /\ UNCHANGED <<h_path, h_handled>>
  /\ UNCHANGED <<h_arrivals, h_triggered>>
  /\ UNCHANGED mainVars
  /\ UNCHANGED <<fileVars, ninaVars, scriptVars, scanVars, outputVars>>

\* lines 180-183: self.script_executor.execute_script('post_task',
\* {'task_id': task_id, 'fits_file': file_path}); whether it returns or
\* raises, the handler returns
Fits_Trigger(out) ==
  /\ h_pc = "trigger"
  /\ h_triggered' = h_triggered \cup
        {<<extract_task_id_from_fits(h_path), h_path>>}
  /\ FitsReturn
  /\ UNCHANGED <<h_arrivals, h_reported>>
  /\ UNCHANGED mainVars
  /\ UNCHANGED <<fileVars, ninaVars, scriptVars, scanVars, outputVars>>

HookOutcomes == {"ok", "raise"}

RunnerNext ==
  \/ \E out \in HookOutcomes : Run_Startup(out)
  \/ \E out \in {"ok", "raise"} : Run_Connect(out)
  \/ \E out \in {"ok", "raise"} : Run_StartWatcher(out)
  \/ \E night \in BOOLEAN, date \in Dates : Run_IsNight(night, date)
  \/ \E out \in HookOutcomes : Run_NightStart(out)
  \/ \E out \in {"tasks", "none", "raise"} : Plan_Fetch(out)
  \/ \E st \in [Tasks -> Statuses], raises \in BOOLEAN : Plan_Status(st, raises)
  \/ \E out \in {"ok", "raise"} : Plan_Compile(out)
  \/ \E out \in {"True", "False", "raise"} : Plan_StartSequence(out)
  \/ Run_Sleep
  \/ Run_Interrupt
  \/ Run_ProcessExits
  \/ Cleanup_IsRunning
  \/ \E out \in {"ok", "raise"} : Cleanup_NinaStop(out)
  \/ Cleanup_WatchStop
  \/ \E out \in HookOutcomes : Cleanup_NightEnd(out)
  \/ Cleanup_StopAll

FitsNext ==
  \/ \E p \in FitsFiles : Fits_Call(p)
  \/ Fits_Extract
  \/ \E out \in {"ok", "raise"} : Fits_Report(out)
  \/ \E out \in HookOutcomes : Fits_Trigger(out)

(***************************************************************************)
(* Specifications: one per component, the other components standing still. *)
(***************************************************************************)
Init == FileInit /\ NinaInit /\ ScriptInit /\ RunnerInit /\ ScanInit

SpecFile == Init /\ [][FileNext]_vars
SpecNina == Init /\ [][NinaNext]_vars
SpecScripts == Init /\ [][ScriptNext]_vars
SpecRunner == Init /\ [][RunnerNext]_vars
SpecFits == Init /\ [][FitsNext]_vars
SpecScan == Init /\ [][ScanNext]_vars
SpecOutput == Init /\ [][OutputNext]_vars

(***************************************************************************)
(* Claims about FITSHandler (checked under SpecFile)                       *)
(***************************************************************************)
\* No handler thread is inside _handle_new_file for path p.
Settled(p) == \A t \in HandlerThreads : fh_path[t] # p

\* C1: for every path and every sequence of creation events delivered for
\* it, raising callbacks included, the arrival callback is invoked exactly
\* once: never twice, and once as soon as its events have been handled.
C1_CallbackExactlyOnce ==
  \A p \in FitsPaths :
    /\ calls[p] <= 1
    /\ (delivered[p] > 0 /\ Settled(p)) => calls[p] = 1

(***************************************************************************)
(* Claims about NINAController (checked under SpecNina)                    *)
(***************************************************************************)
\* is_running() as one observation: a handle, and its process has not exited
IsRunning == process # NoProc /\ alive[process]

StartPcs == {"ss_running2", "ss_exe", "ss_seq", "ss_set", "ss_popen", "ss_thread"}

\* C2: at every moment at most one process launched by start_sequence is
\* alive.
C2_AtMostOneAlive == Cardinality({p \in Procs : alive[p]}) <= 1

\* the call of start_sequence under way is one the code is to refuse: a file
\* is missing, or is_running() finds the supervised process running
Refusable ==
  \/ ~exe_exists
  \/ ~seq_exists
  \/ (n_pc = "ss_running2" /\ IsRunning)

\* C3: a step of a start_sequence call made while the executable is missing,
\* the sequence file is missing or a supervised process is running launches
\* nothing, starts no monitor thread, leaves the handle as it is, and when
\* it ends the call the call returns False.
C3_StartRefuses ==
  [][ ( /\ n_pc \in StartPcs
        /\ n_pc' # n_pc
        /\ Refusable )
      => ( /\ launched' = launched
           /\ process' = process
           /\ alive' = alive
           /\ mon_pc' = mon_pc
           /\ monitor_thread' = monitor_thread
           /\ (n_pc' = "idle" => n_result' = "False") ) ]_vars

\* C4: whenever stop() has returned, the handle is None and is_running() is
\* False, however the process ended and however _cleanup interleaved.
C4_StopClearsHandle ==
  (n_pc = "idle" /\ n_result = "stopped") => (process = NoProc /\ ~IsRunning)

\* stop() has returned after a launch while a monitor thread is still at work
C4_Witness ==
  /\ n_pc = "idle"
  /\ n_result = "stopped"
  /\ launched > 0
  /\ \E k \in Monitors : ThreadAlive(k)

\* C5: in stop() the terminate signal has gone to every enumerated
\* descendant and then to the root before any wait for a process that is
\* still there, and the kill signal is sent only after the wait timed out.
C5_SignalOrder ==
  /\ (n_pc = "st_waiting" /\ alive[n_pid]) => (Root \in term_sent /\ n_kids = {})
  /\ (Root \in term_sent /\ n_pc = "st_term_kids") => n_kids = {}
  /\ kill_sent # {} => waited = "timeout"

\* C6: stop() always returns: no call of stop() ends with an error instead
\* of the escalation to the forced kill.
C6_StopAlwaysReturns == n_result # "stop_raised"

(***************************************************************************)
(* Claims about ScriptExecutor (checked under SpecScripts)                 *)
(***************************************************************************)
Started(i) == inv_state[i] \in {"running", "done"}

\* C7: if execute_script(type, A1) returned True before execute_script(type,
\* A2) was called, the execution for A1 has completed before the execution
\* for A2 starts.
C7_FifoPerType ==
  \A i \in Calls : \A j \in inv_after[i] : Started(i) => inv_state[j] = "done"

\* the workers that are executing a script of type h
InFlight(h) == {w \in Workers : w_pc[w] = "exec" /\ w_type[w] = h}

\* C8: for every hook type at most one script execution is in flight.
C8_OneInFlightPerType == \A h \in HookTypes : Cardinality(InFlight(h)) <= 1

\* one step of caller c inside execute_script
CallerStep(c) ==
  \/ Execute_Check(c)
  \/ Execute_QueueCheck(c)
  \/ Execute_QueueNew(c)
  \/ Execute_ThreadCheck(c)
  \/ Execute_ThreadNew(c)
  \/ Execute_ThreadStart(c)
  \/ Execute_Put(c)

\* C9: hook types never block each other: whatever the workers of other
\* types are doing, a call of execute_script can take its next step, and a
\* worker whose queue holds an invocation can start it.
C9_TypesNeverBlock ==
  /\ \A c \in Callers : c_pc[c] # "idle" => ENABLED CallerStep(c)
  /\ \A w \in Workers :
       (w_pc[w] = "get" /\ queues[w_queue[w]] # <<>>) => ENABLED Worker_Get(w)

\* a script of one type is executing, a worker of another type has an
\* invocation waiting in its queue, and a call for that other type is under way
C9_Witness ==
  \E v \in Workers, w \in Workers, c \in Callers :
    /\ w_pc[v] = "exec"
    /\ w_pc[w] = "get"
    /\ w_type[w] # w_type[v]
    /\ queues[w_queue[w]] # <<>>
    /\ c_pc[c] = "put"
    /\ c_type[c] = w_type[w]

\* C10: when no script is configured for the type or its path does not
\* exist, execute_script returns False and leaves every hook queue and the
\* set of worker threads as they are.
C10_RejectsWithoutEffect ==
  [][ \A c \in Callers :
        (c_pc[c] = "check" /\ ~script_ok[c] /\ c_pc'[c] # "check")
        => ( /\ c_pc'[c] = "idle"
             /\ inv_state'[c_call[c]] = "rejected"
             /\ UNCHANGED <<script_queues, running_threads, queues, n_queues,
                            n_workers, w_pc, w_type, w_queue>> ) ]_vars

\* a call was rejected while a queue and a worker of its type exist
C10_Witness ==
  \E i \in Calls :
    /\ inv_state[i] = "rejected"
    /\ script_queues[inv_type[i]] # NoQueue
    /\ running_threads[inv_type[i]] # NoThread

\* C11: when stop_all() has returned, every worker thread has exited: none
\* is alive, none can dequeue and run a script any more.
C11_WorkersExited ==
  sa_pc = "returned" => \A w \in Workers : ~WorkerAlive(w)

\* C12: when stop_all() has returned, every invocation enqueued before it was
\* called has finished: none is still pending in a queue or running.
C12_QueuedFinished ==
  sa_pc = "returned" =>
    \A i \in Calls : inv_state[i] \notin {"queued", "running"}

(***************************************************************************)
(* Claims about ObservatoryAutomation (checked under SpecRunner)           *)
(***************************************************************************)
\* C13: run() leaves its try block only on an explicit shutdown request: no
\* error of a collaborator brings it to cleanup().
C13_OnlyShutdownEndsRun ==
  r_pc \in CleanupPcs \cup {"ended"} => r_exit = "interrupt"

\* a step of the main thread other than the arrival of a shutdown request
MainStep == r_pc' # r_pc /\ r_exit' # "interrupt"

\* C14: a plan fetch, status check or plan compile that fails leaves run() in
\* its loop, at the sleep of line 106; and on the tick after a failed one
\* nothing is skipped: the sleep ends in a new evaluation of the night
\* predicate, a night leads to the night_start trigger and the plan fetch, a
\* fetch with pending tasks and a compiled plan leads to start_sequence, which
\* is called and, when it returns True, has started the process.
C14_RetryOnNextTick ==
  [][ /\ (r_pc \in {"fetch", "status", "compile"} /\ MainStep
            /\ ~r_failed /\ r_failed')
         => (r_pc' = "sleep" /\ r_exit' = "none")
      /\ (r_failed /\ MainStep) =>
           /\ r_pc = "sleep" => r_pc' = "pred"
           /\ (r_pc = "pred" /\ r_night') => r_pc' = "night_start"
           /\ r_pc = "night_start" =>
                ("night_start" \in r_events' /\ r_pc' \in {"fetch", "err_sleep"})
           /\ r_pc = "fetch" =>
                ("fetch" \in r_events' /\ r_pc' \in {"status", "sleep"})
           /\ r_pc = "status" => r_pc' \in {"compile", "sleep"}
           /\ r_pc = "compile" => r_pc' \in {"start_seq", "sleep"}
           /\ r_pc = "start_seq" =>
                /\ "start_sequence" \in r_events'
                /\ (~r_running /\ ~r_failed' /\ ~r_start_failed') => r_running'
    ]_vars

\* on the tick after a failed one the plan was fetched and compiled again and
\* start_sequence is about to be called, no process being supervised
C14_Witness ==
  /\ r_failed
  /\ r_pc = "start_seq"
  /\ ~r_running
  /\ r_ticks >= 2

\* C15: however run() ends, the night_end hook has been triggered, and it is
\* triggered before the supervised process is asked to stop and before the
\* hook dispatcher is drained.
C15_NightEndFirst ==
  /\ r_pc = "ended" => "night_end" \in r_events
  /\ "nina_stop" \in r_events => "night_end" \in r_events
  /\ "stop_all" \in r_events => "night_end" \in r_events

\* C16: no error leaves cleanup(), and when cleanup() has ended each of its
\* steps has run: the file watcher was stopped, night_end was triggered and
\* the hooks were drained.
C16_CleanupBestEffort ==
  /\ ~r_raised
  /\ r_pc = "ended" => {"watch_stop", "night_end", "stop_all"} \subseteq r_events

\* C17: the night_start hook is triggered and the plan processed only on a
\* tick whose predecessor was not night.
C17_OnlyOnNightEdge ==
  r_pc \in {"fetch", "status", "compile", "start_seq"} => ~r_prev_night

\* C18: when the night predicate has gone from night to day the night_end
\* hook has been triggered by the time the loop sleeps, and no supervised
\* process is left running while the loop sleeps through a day tick.
C18_DayEndsImaging ==
  /\ (r_pc = "sleep" /\ r_prev_night /\ ~r_night) => "night_end" \in r_events
  /\ (r_pc = "sleep" /\ ~r_night) => ~r_running

\* C19: once start_sequence has returned False, it is not called again before
\* the night predicate has been day.
C19_NoRetryInSameNight ==
  r_pc = "start_seq" => ~r_start_failed

\* C20: the startup hook is triggered before the API connect, the start of
\* the file watcher, every evaluation of the night predicate, every
\* night_start trigger and every plan fetch.
C20_StartupFirst ==
  r_events \cap {"connect", "watch", "pred", "night_start", "fetch"} # {}
    => "startup" \in r_events

\* a run that has come to a plan fetch
C20_Witness ==
  /\ "fetch" \in r_events
  /\ "startup" \in r_events

\* C21: process_night_plan comes to prepare_sequence_file and start_sequence
\* only with a plan that is not empty and has a task whose status is not
\* 'completed'; and the list it passes to prepare_sequence_file is not empty
\* and holds no task whose status is 'completed'.
C21_NoWorkWithoutPending ==
  r_pc \in {"compile", "start_seq"} =>
    /\ r_tasks # <<>>
    /\ \E i \in 1..Len(r_tasks) : r_status[r_tasks[i]] # "completed"
    /\ r_pending # <<>>
    /\ \A i \in 1..Len(r_pending) : r_status[r_pending[i]] # "completed"

\* a plan with a completed task and a pending one has been compiled
C21_Witness ==
  /\ r_pc = "start_seq"
  /\ "compile" \in r_events
  /\ \E i \in 1..Len(r_tasks) : r_status[r_tasks[i]] = "completed"
  /\ Len(r_pending) < Len(r_tasks)

\* C26: when handle_new_fits_file has returned for a file that has a task
\* identifier, the status of that task was reported to the API and the
\* post_task hook was triggered with that task id and that path.
C26_ReportAndTrigger ==
  \A p \in h_handled :
    extract_task_id_from_fits(p) # "" =>
      /\ <<extract_task_id_from_fits(p), p>> \in h_reported
      /\ <<extract_task_id_from_fits(p), p>> \in h_triggered

(***************************************************************************)
(* Claims about FITSHandler, continued (checked under SpecFile)            *)
(***************************************************************************)
\* the callback is about to be invoked, or is running, in thread t
AtCallback(t) == fh_pc[t] \in {"ready", "callback"}

\* C22: the arrival callback is invoked only after the stability timeout has
\* elapsed or after two consecutive observations of the size that are equal
\* and greater than zero: never after a single observation, and never after
\* two equal observations of size zero.
C22_CallbackAfterStable ==
  \A t \in HandlerThreads :
    AtCallback(t) =>
      \/ fh_elapsed[t] >= WaitTimeout
      \/ /\ Len(fh_seen[t]) = 2
         /\ fh_seen[t][1] = fh_seen[t][2]
         /\ fh_seen[t][2] > 0

\* C23: when the file has disappeared during the stability wait, the arrival
\* callback is not invoked for it.
C23_AbandonWhenGone ==
  \A t \in HandlerThreads :
    (fh_seen[t] # <<>> /\ fh_seen[t][Len(fh_seen[t])] = Gone) => ~AtCallback(t)

\* C29: no thread holds the deduplication lock while it is in the stability
\* wait or while the arrival callback is running.
C29_LockOnlyForCheckAndMark ==
  \A t \in HandlerThreads :
    fh_pc[t] \in {"wait", "ready", "callback"} => processing_lock # t

\* C24: an exception of the arrival callback for one file does not keep the
\* later files from being processed: when process_existing_files has ended,
\* the callback was invoked for every matching file of its scan.
C24_ScanProcessesAll ==
  (pe_pc = "done" /\ pe_callback) => (pe_scan \ pe_dirs) \subseteq pe_called

(***************************************************************************)
(* Claims about ScriptExecutor, continued (checked under SpecScripts)      *)
(***************************************************************************)
\* C25: a failing script execution does not end the hook worker: no worker
\* thread that has begun its loop ever ends, so whatever is queued behind a
\* failing invocation has a worker to dequeue it.
C25_WorkerSurvivesFailure ==
  \A w \in Workers : w_pc[w] # "dead"

(***************************************************************************)
(* Claims about NINAController, continued (checked under SpecNina)         *)
(***************************************************************************)
\* C27: a monitoring thread ends only by way of the statements that close
\* the streams of its own process (lines 229-232), and when it ends the
\* process handle is cleared.  (Monitor thread k is the one started for the
\* k-th launched process.)
C27_MonitorEndsClean ==
  [][ \A k \in Monitors :
        /\ (mon_pc[k] = "close" /\ mon_pc'[k] = "closed") => process = k
        /\ (mon_pc[k] # "done" /\ mon_pc'[k] = "done") =>
             (mon_pc[k] = "closed" /\ process' = NoProc)
    ]_vars

\* C28: there are never two live monitor threads, and a monitor thread that
\* is reading or cleaning up finds no handle but that of its own process.
C28_OneMonitor ==
  /\ Cardinality({k \in Monitors : ThreadAlive(k)}) <= 1
  /\ \A k \in Monitors :
       mon_pc[k] \in {"running2", "body", "close", "closed", "finally"} =>
         process \in {NoProc, k}

Accepted(h) ==
  {i \in Calls : /\ inv_type[i] = h
                 /\ inv_state[i] \in {"queued", "running", "done"}}

\* C31 (checked under SpecScripts): for every hook type, the worker has run
\* the script at most as many times as execute_script has returned True for
\* that type: the None that stop_all puts on the queue is not run as a script
\* invocation.
C31_StopSignalNotRun ==
  \A h \in HookTypes : executions[h] <= Cardinality(Accepted(h))

\* the poll tick under way writes the sequence file in this step
WritesSequenceFile ==
  /\ r_pc = "compile"
  /\ r_pc' = "start_seq"

\* C32 (checked under SpecRunner): while the supervised process that was
\* started with a sequence file is running, no poll tick writes that file:
\* prepare_sequence_file does not write the path the process was started with
\* between the start_sequence that returned True and the exit of the process.
C32_NoRewriteWhileRunning ==
  [][ WritesSequenceFile =>
        ~(r_running /\ r_run_path = SequencePath(observatory_id, r_date))
    ]_vars

====
